---- MODULE Spec2Model ----
(***************************************************************************)
(* Model of the subtitle pipeline orchestrator of src/main_gui.py:         *)
(* SubtitleApp.start_processing (admission), SubtitleApp.check_queue (the  *)
(* poll/drain callback run by the Tk main loop) and                        *)
(* SubtitleApp.process_video_thread (the worker thread), which share the   *)
(* single queue.Queue created in SubtitleApp.__init__.                     *)
(*                                                                         *)
(* The Tk main loop runs one callback at a time, so start_processing never *)
(* overlaps check_queue.  The worker threads run concurrently with the     *)
(* main loop, so check_queue is split at the points where a worker can be  *)
(* scheduled in between: each get_nowait, the queue.Empty exit of the      *)
(* loop, and the is_alive test that follows it.                            *)
(*                                                                         *)
(* The only things a worker shares with the main loop are the queue and    *)
(* its own liveness, so a worker step is one queue put together with the   *)
(* thread-local statements, collaborator call and file operations that     *)
(* lead to it.  A position "Lnnn" is the source line at which the thread   *)
(* stands: a collaborator call in progress or the next put.                *)
(***************************************************************************)
EXTENDS Integers, Sequences, FiniteSets, TLC

\* Jobs accepted in one run of the whole application (specification Spec).
MaxJobs == 3

\* Jobs accepted in one run when the runner's event stream is examined
\* (specification SpecJob).
MaxRunnerJobs == 1

\* Jobs accepted in one run under fair scheduling (specification FairSpec).
MaxFairJobs == 1

\* Events waiting in processing_queue at any time.
MaxQueue == 2

Jobs == 1..MaxJobs

\* The jobs whose runner's history (events put, calls made) is recorded.
Traced == 1..MaxRunnerJobs

Formats == {"srt", "ass"}

VARIABLES
    generate_button,    \* state of self.generate_button: "normal" | "disabled"
    browse_button,      \* state of the other toggled widgets (browse_button ...)
    status_label,       \* self.status_label_var
    progress_bar,       \* self.progress_bar["value"]
    processing_queue,   \* self.processing_queue, a FIFO of event records
    processing_thread,  \* self.processing_thread: 0 is None, else the job id
    poll,               \* position of the check_queue callback chain
    thr,                \* per job: the worker thread's locals and position
    artifact,           \* jobs of live threads whose temporary WAV file exists
    nJobs,              \* number of worker threads started so far
    lastSubmit,         \* outcome of the latest start_processing call
    emitted,            \* history: per live thread, the events it has put
    calls,              \* history: per live thread, the calls it has made
    dispatched,         \* history: per job, how many of its events
                        \* check_queue has dispatched
    path_job            \* the output path computation of lines 294-297:
                        \* its arguments and, once made, its result

vars == <<generate_button, browse_button, status_label, progress_bar,
          processing_queue, processing_thread, poll, thr, artifact,
          nJobs, lastSubmit, emitted, calls, dispatched, path_job>>

guiVars == <<generate_button, browse_button, status_label, progress_bar,
             processing_thread, poll, nJobs, lastSubmit>>

----------------------------------------------------------------------------
(* Events: the dicts put on processing_queue.  The job field is history    *)
(* only (the dicts carry no job identity and no code reads it).            *)

Event(t, v, j) == [type |-> t, value |-> v, job |-> j]

(* The event ev of job j as it lies in the queue: the seq field is history *)
(* only, the position of ev among the events the thread of j has put.      *)
Stamp(ev, j) ==
    [type |-> ev.type, value |-> ev.value, job |-> ev.job,
     seq |-> IF j \in Traced THEN Len(emitted[j]) + 1 ELSE 0]

(* Some event of job j is waiting in the queue q.                          *)
Queued(q, j) == \E i \in 1..Len(q) : q[i].job = j

(* The locals of process_video_thread at its first statement; also the     *)
(* record of a thread that does not exist (not started, or terminated).    *)
NoThread == [pc |-> "none", has_error |-> FALSE, temp_wav_path |-> FALSE,
             output_format |-> "srt"]

(* The output path computation when it is not under examination: paths    *)
(* are sequences of path symbols, the empty one standing for None.         *)
NoPathJob == [video_path |-> <<>>, output_format |-> "srt",
              output_subtitle_path |-> <<>>]

----------------------------------------------------------------------------
(* The application after SubtitleApp.__init__.                             *)
InitApp ==
    /\ generate_button \in {"normal", "disabled"}
    /\ browse_button = "normal"
    /\ status_label = "Idle"
    /\ progress_bar = 0
    /\ processing_queue = <<>>
    /\ processing_thread = 0
    /\ poll = "none"
    /\ thr = [j \in Jobs |-> NoThread]
    /\ artifact = {}
    /\ nJobs = 0
    /\ lastSubmit = "none"
    /\ emitted = [j \in Jobs |-> <<>>]
    /\ calls = [j \in Jobs |-> <<>>]
    /\ dispatched = [j \in Jobs |-> 0]

Init == InitApp /\ path_job = NoPathJob

----------------------------------------------------------------------------
(* SubtitleApp.toggle_ui_state: every toggled widget, generate_button      *)
(* included, gets the same enabled/disabled state.                         *)

WidgetState(enabled) == IF enabled THEN "normal" ELSE "disabled"

toggle_ui_state(enabled) ==
    /\ generate_button' = WidgetState(enabled)
    /\ browse_button' = WidgetState(enabled)

(* The admission decision of start_processing, lines 167-183, from the     *)
(* content of file_path_var (src: "" | "missing" | "valid") and the result *)
(* of check_ffmpeg().                                                      *)
Admission(src, ffmpeg_ok) ==
    IF src = "" THEN "no_path"
    ELSE IF src = "missing" THEN "not_found"
    ELSE IF ~ffmpeg_ok THEN "no_ffmpeg"
    ELSE "accepted"

(* start_processing disabling the widgets before it validates the path:    *)
(* the early returns of lines 170 and 173 leave them disabled.             *)
start_processing_LockFirst(limit) ==
    /\ poll \in {"none", "scheduled"}
    /\ generate_button = "normal"
    /\ \E src \in {"", "missing", "valid"}, ffmpeg_ok \in BOOLEAN,
          fmt \in Formats :
        LET j == nJobs + 1
            r == Admission(src, ffmpeg_ok)
        IN  /\ lastSubmit' = r
            /\ toggle_ui_state(FALSE)
            /\ IF r = "accepted"
               THEN /\ nJobs < limit
                    /\ nJobs' = j
                    /\ status_label' = "Starting..."
                    /\ progress_bar' = 0
                    /\ thr' = [thr EXCEPT ![j] =
                                 [NoThread EXCEPT !.pc = "L254",
                                                  !.output_format = fmt]]
                    /\ processing_thread' = j
                    /\ poll' = "scheduled"
               ELSE UNCHANGED <<status_label, progress_bar, thr,
                                processing_thread, poll, nJobs>>
    /\ UNCHANGED <<processing_queue, artifact, emitted, calls, dispatched,
                   path_job>>

(* SubtitleApp.start_processing.  It is the command of generate_button and *)
(* has no other caller: Tk runs it when the button is clicked while        *)
(* enabled, between two callbacks of the main loop.  The function itself   *)
(* tests nothing about a running job.  With the button enabled, lines      *)
(* 181-183 (re-enabling a disabled button) change nothing.  limit bounds   *)
(* the accepted jobs.                                                      *)
start_processing(limit) ==
    /\ poll \in {"none", "scheduled"}
    /\ generate_button = "normal"
    /\ \E src \in {"", "missing", "valid"}, ffmpeg_ok \in BOOLEAN,
          fmt \in Formats :
        LET j == nJobs + 1
            r == Admission(src, ffmpeg_ok)
        IN  /\ lastSubmit' = r
            /\ IF r = "accepted"
               THEN /\ nJobs < limit
                    /\ nJobs' = j
                    /\ toggle_ui_state(FALSE)
                    /\ status_label' = "Starting..."
                    /\ progress_bar' = 0
                    /\ thr' = [thr EXCEPT ![j] =
                                 [NoThread EXCEPT !.pc = "L254",
                                                  !.output_format = fmt]]
                    /\ processing_thread' = j
                    /\ poll' = "scheduled"
               ELSE /\ generate_button' =
                          IF r = "no_ffmpeg" THEN "disabled"
                          ELSE generate_button
                    /\ UNCHANGED <<browse_button, status_label, progress_bar,
                                   thr, processing_thread, poll, nJobs>>
    /\ UNCHANGED <<processing_queue, artifact, emitted, calls, dispatched,
                   path_job>>

----------------------------------------------------------------------------
(* SubtitleApp.check_queue.                                                *)

(* threading.Thread.is_alive of self.processing_thread (None when 0).      *)
is_alive(j) == j # 0 /\ thr[j].pc # "none"

(* The label text the dispatch of one event leaves in status_label_var.    *)
StatusAfter(ev) ==
    CASE ev.type = "status" -> ev.value
      [] ev.type = "error"  -> "Error occurred. Check logs."
      [] ev.type = "finish" ->
            IF ev.value THEN "Processing finished with errors. Check logs."
            ELSE "Processing finished successfully."
      [] OTHER -> status_label

(* The progress bar value the dispatch of one event leaves.                *)
ProgressAfter(ev) ==
    CASE ev.type = "progress" -> ev.value
      [] ev.type = "finish" ->
            IF ~ev.value /\ progress_bar < 100 THEN 100 ELSE progress_bar
      [] OTHER -> progress_bar

(* check_queue over a queue.LifoQueue: get_nowait returns the newest       *)
(* waiting event.                                                          *)
CheckQueueGetNewest ==
    /\ poll \in {"scheduled", "draining"}
    /\ processing_queue # <<>>
    /\ LET n == Len(processing_queue)
           ev == processing_queue[n]
           rest == SubSeq(processing_queue, 1, n - 1)
       IN  /\ processing_queue' = rest
           /\ status_label' = StatusAfter(ev)
           /\ progress_bar' = ProgressAfter(ev)
           /\ IF ev.type = "finish"
              THEN toggle_ui_state(TRUE) /\ poll' = "none"
              ELSE /\ poll' = "draining"
                   /\ UNCHANGED <<generate_button, browse_button>>
           /\ dispatched' =
                 IF ev.job \notin Traced THEN dispatched
                 ELSE [dispatched EXCEPT ![ev.job] =
                         IF thr[ev.job].pc = "none" /\ ~Queued(rest, ev.job)
                         THEN 0 ELSE ev.seq]
    /\ UNCHANGED <<processing_thread, thr, artifact, nJobs, lastSubmit,
                   emitted, calls, path_job>>

(* One iteration of the while loop (the first one when the callback set by *)
(* root.after fires): get_nowait returns an event, which is dispatched;    *)
(* 'finish' re-enables the UI and returns without rescheduling.  The       *)
(* modal dialog shown for 'error' keeps the callback at this iteration     *)
(* until it is dismissed, while the workers run on.                        *)
CheckQueueGet ==
    /\ poll \in {"scheduled", "draining"}
    /\ processing_queue # <<>>
    /\ LET ev == Head(processing_queue)
       IN  /\ processing_queue' = Tail(processing_queue)
           /\ status_label' = StatusAfter(ev)
           /\ progress_bar' = ProgressAfter(ev)
           /\ IF ev.type = "finish"
              THEN toggle_ui_state(TRUE) /\ poll' = "none"
              ELSE /\ poll' = "draining"
                   /\ UNCHANGED <<generate_button, browse_button>>
           /\ dispatched' =
                 IF ev.job \notin Traced THEN dispatched
                 ELSE [dispatched EXCEPT ![ev.job] =
                         IF thr[ev.job].pc = "none"
                            /\ ~Queued(Tail(processing_queue), ev.job)
                         THEN 0 ELSE ev.seq]
    /\ UNCHANGED <<processing_thread, thr, artifact, nJobs, lastSubmit,
                   emitted, calls, path_job>>

(* get_nowait raises queue.Empty: the loop is left for line 238.           *)
CheckQueueEmpty ==
    /\ poll \in {"scheduled", "draining"}
    /\ processing_queue = <<>>
    /\ poll' = "alive_check"
    /\ UNCHANGED <<generate_button, browse_button, status_label, progress_bar,
                   processing_queue, processing_thread, thr, artifact,
                   nJobs, lastSubmit, emitted, calls, dispatched,
                   path_job>>

(* check_queue without the defensive branch of lines 240-247: a poll that  *)
(* finds the thread dead just stops.                                       *)
CheckQueueAliveNoRecovery ==
    /\ poll = "alive_check"
    /\ poll' = IF is_alive(processing_thread) THEN "scheduled" ELSE "none"
    /\ UNCHANGED <<generate_button, browse_button, status_label,
                   progress_bar, processing_queue, processing_thread, thr,
                   artifact, nJobs, lastSubmit, emitted, calls, dispatched,
                   path_job>>

(* Lines 238-247: reschedule while the thread is alive, else the defensive *)
(* re-enabling of the UI when generate_button is still disabled.           *)
CheckQueueAlive ==
    /\ poll = "alive_check"
    /\ IF is_alive(processing_thread)
       THEN /\ poll' = "scheduled"
            /\ UNCHANGED <<generate_button, browse_button, status_label>>
       ELSE /\ poll' = "none"
            /\ IF generate_button = "disabled"
               THEN /\ toggle_ui_state(TRUE)
                    /\ status_label' = "Process ended. Check logs."
               ELSE UNCHANGED <<generate_button, browse_button, status_label>>
    /\ UNCHANGED <<progress_bar, processing_queue, processing_thread, thr,
                   artifact, nJobs, lastSubmit, emitted, calls, dispatched,
                   path_job>>

----------------------------------------------------------------------------
(* SubtitleApp.process_video_thread.  The outer handler of lines 325-329   *)
(* has no action: extract_audio and transcribe_audio_with_whisper catch    *)
(* every Exception themselves, the tempfile and generate_* calls sit in    *)
(* inner try blocks, and the remaining statements are queue puts.          *)

(* self.processing_queue.put(ev) by the thread of job j, whose locals and  *)
(* position become t.  queue.Queue() is unbounded; the model explores the  *)
(* runs in which at most MaxQueue events are waiting at any time.          *)
Put(j, ev, t) ==
    /\ Len(processing_queue) < MaxQueue
    /\ processing_queue' = Append(processing_queue, Stamp(ev, j))
    /\ emitted' = IF j \in Traced
                  THEN [emitted EXCEPT ![j] = Append(@, ev)]
                  ELSE emitted
    /\ thr' = [thr EXCEPT ![j] = t]
    /\ UNCHANGED <<dispatched, path_job>>

(* The thread's locals at position pc.                                     *)
At(j, pc) == [thr[j] EXCEPT !.pc = pc]

(* Abort with the 'finish' put placed after the try statement instead of   *)
(* inside finally: an early return leaves the function without it.         *)
AbortSkippingFinally(j, msg) ==
    Put(j, Event("error", msg, j),
        [thr[j] EXCEPT !.pc = "exit", !.has_error = TRUE])

(* Abort that forgets has_error = True.                                    *)
AbortWithoutFlag(j, msg) ==
    Put(j, Event("error", msg, j), [thr[j] EXCEPT !.pc = "L331"])

(* Abort without the return statement after has_error = True: the thread   *)
(* goes on to the last put of the try block.                               *)
AbortWithoutReturn(j, msg) ==
    Put(j, Event("error", msg, j),
        [thr[j] EXCEPT !.pc = "L323", !.has_error = TRUE])

(* put(error); has_error = True; return: control passes to the finally     *)
(* block at line 331.                                                      *)
Abort(j, msg) ==
    Put(j, Event("error", msg, j),
        [thr[j] EXCEPT !.pc = "L331", !.has_error = TRUE])

(* A collaborator or library call of job j that ended with result r.       *)
Called(j, name, r) ==
    calls' = IF j \in Traced
             THEN [calls EXCEPT ![j] = Append(@, <<name, r>>)]
             ELSE calls

(* The runner announcing the start itself: line 254 putting a Status       *)
(* event "Starting..." in place of the Log.                                *)
PutStatusStarting(j) ==
    /\ thr[j].pc = "L254"
    /\ Put(j, Event("status", "Starting...", j), At(j, "L257"))
    /\ UNCHANGED <<guiVars, artifact, calls>>

PutThreadStarted(j) ==
    /\ thr[j].pc = "L254"
    /\ Put(j, Event("log", "Thread started", j), At(j, "L257"))
    /\ UNCHANGED <<guiVars, artifact, calls>>

PutStatusExtracting(j) ==
    /\ thr[j].pc = "L257"
    /\ Put(j, Event("status", "Extracting audio...", j), At(j, "L258"))
    /\ UNCHANGED <<guiVars, artifact, calls>>

PutProgress5(j) ==
    /\ thr[j].pc = "L258"
    /\ Put(j, Event("progress", 5, j), At(j, "L262"))
    /\ UNCHANGED <<guiVars, artifact, calls>>

(* Lines 262-265 and 275-277.  tempfile.NamedTemporaryFile(delete=False)   *)
(* creates the file, temp_wav_path is assigned and the path is logged; or  *)
(* the call raises, temp_wav_path stays None and the handler at line 275   *)
(* reports the error.                                                      *)
CreateTempFile(j) ==
    /\ thr[j].pc = "L262"
    /\ \E ok \in BOOLEAN :
          /\ Called(j, "tempfile", IF ok THEN "ok" ELSE "raise")
          /\ IF ok
             THEN /\ artifact' = artifact \cup {j}
                  /\ Put(j, Event("log", "Temporary WAV path", j),
                         [thr[j] EXCEPT !.pc = "L267", !.temp_wav_path = TRUE])
             ELSE /\ Abort(j, "Audio extraction failed: exception")
                  /\ UNCHANGED artifact
    /\ UNCHANGED guiVars

(* The results of audio_extractor.extract_audio: True after the WAV file   *)
(* was written; False when the clip has no audio track (line 27) and when  *)
(* any exception was caught (lines 38-44).  It never raises.               *)
ExtractOutcomes == {"ok", "no_audio", "failed"}

extract_audio(outcome) == outcome = "ok"

(* Line 269: the text of the Error event put when extract_audio returned  *)
(* False after ending with outcome o.  The boolean is all the caller gets, *)
(* so the text is one literal; the cause goes to the module logger only.   *)
ExtractErrorText(o) ==
    "Audio extraction failed. The function returned false."

(* Lines 267-272: the call of extract_audio and the put that follows it.   *)
ExtractAudio(j) ==
    /\ thr[j].pc = "L267"
    /\ \E o \in ExtractOutcomes :
          /\ Called(j, "extract", o)
          /\ IF extract_audio(o)
             THEN Put(j, Event("log", "Audio extraction successful.", j),
                      At(j, "L273"))
             ELSE Abort(j, ExtractErrorText(o))
    /\ UNCHANGED <<guiVars, artifact>>

(* Line 273 reporting the share of the extraction stage alone instead of   *)
(* the accumulated percentage.                                             *)
PutProgress25StageShare(j) ==
    /\ thr[j].pc = "L273"
    /\ Put(j, Event("progress", 2, j), At(j, "L281"))
    /\ UNCHANGED <<guiVars, artifact, calls>>

PutProgress25(j) ==
    /\ thr[j].pc = "L273"
    /\ Put(j, Event("progress", 25, j), At(j, "L281"))
    /\ UNCHANGED <<guiVars, artifact, calls>>

PutStatusTranscribing(j) ==
    /\ thr[j].pc = "L281"
    /\ Put(j, Event("status", "Transcribing audio...", j), At(j, "L283"))
    /\ UNCHANGED <<guiVars, artifact, calls>>

(* The results of stt_processor.transcribe_audio_with_whisper: it returns  *)
(* (result, None), or (None, message) for every exception it catches; the  *)
(* result is whatever model.transcribe returned, which may be empty.       *)
TranscribeOutcomes == {"ok", "error", "empty"}

(* Line 285 testing error_msg alone.                                       *)
SttFailedOnErrorOnly(outcome) == outcome = "error"

(* Line 285: error_msg or not stt_result.                                  *)
SttFailed(outcome) == outcome = "error" \/ outcome = "empty"

(* Lines 283-290 with an empty result only logged: the job goes on to the  *)
(* subtitle generation with nothing to write.                              *)
TranscribeEmptyAsWarning(j) ==
    /\ thr[j].pc = "L283"
    /\ \E o \in TranscribeOutcomes :
          /\ Called(j, "transcribe", o)
          /\ CASE o = "error" -> Abort(j, "Speech-to-text failed")
               [] o = "empty" ->
                     Put(j, Event("log", "Transcription returned no text.", j),
                         At(j, "L291"))
               [] OTHER ->
                     Put(j, Event("log", "Transcription successful.", j),
                         At(j, "L291"))
    /\ UNCHANGED <<guiVars, artifact>>

(* Lines 283-290: the call and the put that follows it.                    *)
Transcribe(j) ==
    /\ thr[j].pc = "L283"
    /\ \E o \in TranscribeOutcomes :
          /\ Called(j, "transcribe", o)
          /\ IF SttFailed(o)
             THEN Abort(j, "Speech-to-text failed")
             ELSE Put(j, Event("log", "Transcription successful.", j),
                      At(j, "L291"))
    /\ UNCHANGED <<guiVars, artifact>>

(* Line 291 announcing completion as soon as the transcript exists, before *)
(* the subtitle file has been written.                                     *)
PutProgress75AsComplete(j) ==
    /\ thr[j].pc = "L291"
    /\ Put(j, Event("progress", 100, j), At(j, "L303"))
    /\ UNCHANGED <<guiVars, artifact, calls>>

PutProgress75(j) ==
    /\ thr[j].pc = "L291"
    /\ Put(j, Event("progress", 75, j), At(j, "L303"))
    /\ UNCHANGED <<guiVars, artifact, calls>>

(* Line 303, after the output path was computed at lines 295-297.          *)
StatusGenerating(fmt) ==
    IF fmt = "srt" THEN "Generating SRT subtitles..."
    ELSE "Generating ASS subtitles..."

PutStatusGenerating(j) ==
    /\ thr[j].pc = "L303"
    /\ Put(j, Event("status", StatusGenerating(thr[j].output_format), j),
           At(j, "L307"))
    /\ UNCHANGED <<guiVars, artifact, calls>>

(* generate_srt / generate_ass, selected by output_format: the call        *)
(* returns True, returns False, or raises.                                 *)
GenerateOutcomes == {"ok", "false", "raise"}

(* Lines 305-321: the call and the put that follows it.                    *)
GenerateSubtitles(j) ==
    /\ thr[j].pc = "L307"
    /\ \E o \in GenerateOutcomes :
          /\ Called(j, "generate", o)
          /\ CASE o = "raise" -> Abort(j, "subtitle generation failed: exception")
               [] o = "false" -> Abort(j, "subtitle generation returned false.")
               [] OTHER -> Put(j, Event("status", "Subtitles saved", j),
                               At(j, "L322"))
    /\ UNCHANGED <<guiVars, artifact>>

PutLogSaved(j) ==
    /\ thr[j].pc = "L322"
    /\ Put(j, Event("log", "Subtitles successfully generated", j),
           At(j, "L323"))
    /\ UNCHANGED <<guiVars, artifact, calls>>

PutProgress100(j) ==
    /\ thr[j].pc = "L323"
    /\ Put(j, Event("progress", 100, j), At(j, "L331"))
    /\ UNCHANGED <<guiVars, artifact, calls>>

----------------------------------------------------------------------------
(* The finally block, lines 330-344.                                       *)

(* What the cleanup meets.  "removed": the file exists and os.remove       *)
(* deletes it.  "denied": the file exists and os.remove raises an OSError  *)
(* other than FileNotFoundError, leaving the file.  "absent": another      *)
(* process deleted the file before os.path.exists.  "vanished": another    *)
(* process deleted it between os.path.exists and os.remove.                *)
CleanupOutcomes == {"removed", "denied", "absent", "vanished"}

(* The log line of lines 335, 337, 339 and 341.                            *)
CleanupLog(o) ==
    CASE o = "removed"  -> "Cleaned up temporary file"
      [] o = "denied"   -> "Warning: Could not delete temporary file"
      [] o = "absent"   -> "Temporary file was already removed"
      [] o = "vanished" -> "Temporary file not found during cleanup"

(* Does the temporary file exist after a cleanup that met outcome o.       *)
FileLeft(o) == o = "denied"

(* The cleanup as the tail of the try block instead of a finally block:    *)
(* it is skipped when the job was aborted.                                 *)
CleanupOnlyOnSuccess(j) ==
    /\ thr[j].pc = "L331"
    /\ thr[j].temp_wav_path
    /\ \E o \in CleanupOutcomes :
          IF thr[j].has_error
          THEN /\ Called(j, "cleanup", "skipped")
               /\ Put(j, Event("log", "Cleanup skipped", j), At(j, "L344"))
               /\ UNCHANGED artifact
          ELSE /\ Called(j, "cleanup", o)
               /\ artifact' = IF o = "denied" THEN artifact ELSE artifact \ {j}
               /\ Put(j, Event("log", CleanupLog(o), j), At(j, "L344"))
    /\ UNCHANGED guiVars

(* The cleanup with the OSError of os.remove reported as a job error.      *)
CleanupEscalates(j) ==
    /\ thr[j].pc = "L331"
    /\ thr[j].temp_wav_path
    /\ \E o \in CleanupOutcomes :
          /\ Called(j, "cleanup", o)
          /\ artifact' = IF o = "denied" THEN artifact ELSE artifact \ {j}
          /\ IF o = "denied"
             THEN Put(j, Event("error", CleanupLog(o), j),
                      [thr[j] EXCEPT !.pc = "L344", !.has_error = TRUE])
             ELSE Put(j, Event("log", CleanupLog(o), j), At(j, "L344"))
    /\ UNCHANGED guiVars

(* Lines 331-341, entered with temp_wav_path assigned.                     *)
CleanupTempFile(j) ==
    /\ thr[j].pc = "L331"
    /\ thr[j].temp_wav_path
    /\ \E o \in CleanupOutcomes :
          /\ Called(j, "cleanup", o)
          /\ artifact' = IF FileLeft(o) THEN artifact ELSE artifact \ {j}
          /\ Put(j, Event("log", CleanupLog(o), j), At(j, "L344"))
    /\ UNCHANGED guiVars

(* The finally block reporting a cleanup outcome whether or not            *)
(* temp_wav_path was assigned: with temp_wav_path None it logs the file as *)
(* already removed before it puts 'finish'.                                *)
PutFinishAfterCleanupReport(j) ==
    IF thr[j].pc = "L331" /\ ~thr[j].temp_wav_path
    THEN /\ Called(j, "cleanup", "absent")
         /\ Put(j, Event("log", CleanupLog("absent"), j), At(j, "L344"))
         /\ UNCHANGED <<guiVars, artifact>>
    ELSE /\ thr[j].pc = "L344"
         /\ Put(j, [type |-> "finish", value |-> thr[j].has_error, job |-> j],
                At(j, "exit"))
         /\ UNCHANGED <<guiVars, artifact, calls>>

(* The worker re-enabling the widgets itself when it puts 'finish',        *)
(* instead of leaving it to check_queue.                                   *)
PutFinishEnablingUi(j) ==
    /\ \/ thr[j].pc = "L344"
       \/ thr[j].pc = "L331" /\ ~thr[j].temp_wav_path
    /\ Put(j, [type |-> "finish", value |-> thr[j].has_error, job |-> j],
           At(j, "exit"))
    /\ toggle_ui_state(TRUE)
    /\ UNCHANGED <<status_label, progress_bar, processing_thread, poll,
                   nJobs, lastSubmit, artifact, calls>>

(* Line 344: the last statement of the finally block, reached after the    *)
(* cleanup, or directly when temp_wav_path is None.                        *)
PutFinish(j) ==
    /\ \/ thr[j].pc = "L344"
       \/ thr[j].pc = "L331" /\ ~thr[j].temp_wav_path
    /\ Put(j, [type |-> "finish", value |-> thr[j].has_error, job |-> j],
           At(j, "exit"))
    /\ UNCHANGED <<guiVars, artifact, calls>>

(* The target function has returned: the thread stops being alive.  Its    *)
(* locals are gone; the histories kept for it, and the record of its       *)
(* uniquely named temporary file, which nothing refers to any more, are    *)
(* dropped with it.                                                        *)
ThreadExit(j) ==
    /\ thr[j].pc = "exit"
    /\ thr' = [thr EXCEPT ![j] = NoThread]
    /\ emitted' = [emitted EXCEPT ![j] = <<>>]
    /\ calls' = [calls EXCEPT ![j] = <<>>]
    /\ artifact' = artifact \ {j}
    /\ dispatched' = [dispatched EXCEPT ![j] =
                        IF Queued(processing_queue, j) THEN @ ELSE 0]
    /\ UNCHANGED <<guiVars, processing_queue, path_job>>

----------------------------------------------------------------------------
Worker(j) ==
    \/ PutThreadStarted(j)
    \/ PutStatusExtracting(j)
    \/ PutProgress5(j)
    \/ CreateTempFile(j)
    \/ ExtractAudio(j)
    \/ PutProgress25(j)
    \/ PutStatusTranscribing(j)
    \/ Transcribe(j)
    \/ PutProgress75(j)
    \/ PutStatusGenerating(j)
    \/ GenerateSubtitles(j)
    \/ PutLogSaved(j)
    \/ PutProgress100(j)
    \/ CleanupTempFile(j)
    \/ PutFinish(j)
    \/ ThreadExit(j)

CheckQueue == CheckQueueGet \/ CheckQueueEmpty \/ CheckQueueAlive

NextOf(limit) ==
    \/ start_processing(limit)
    \/ CheckQueue
    \/ \E j \in Jobs : Worker(j)

Next == NextOf(MaxJobs)

Spec == Init /\ [][Next]_vars

NextJob == NextOf(MaxRunnerJobs)

SpecJob == Init /\ [][NextJob]_vars

NextFair == NextOf(MaxFairJobs)

(* The Tk main loop keeps running the callback that root.after scheduled,  *)
(* and the operating system keeps scheduling every live thread.            *)
FairSpec ==
    /\ Init
    /\ [][NextFair]_vars
    /\ WF_vars(CheckQueue)
    /\ \A j \in Jobs : WF_vars(Worker(j))

----------------------------------------------------------------------------
(* Vocabulary of the properties.                                           *)

RECURSIVE CountType(_, _)
(* Number of events of type t in the event sequence es.                    *)
CountType(es, t) ==
    IF es = <<>> THEN 0
    ELSE (IF Head(es).type = t THEN 1 ELSE 0) + CountType(Tail(es), t)

Last(seq) == seq[Len(seq)]

StageNames == {"extract", "transcribe", "generate"}

StageOrder == <<"extract", "transcribe", "generate">>

(* The stage collaborator calls of job j, in the order they were made.     *)
StageCalls(j) == SelectSeq(calls[j], LAMBDA c : c[1] \in StageNames)

(* Some stage of job j failed: the temporary file could not be created for *)
(* stage 1, or a stage collaborator returned failure or raised.            *)
StageFailed(j) ==
    \E i \in 1..Len(calls[j]) :
        /\ calls[j][i][1] \in StageNames \cup {"tempfile"}
        /\ calls[j][i][2] # "ok"

(* The runner of job j has put its Finish event (and is still a thread).   *)
Finished(j) == thr[j].pc = "exit"

(* A Job Runner that has been started and has not yet emitted Finish.      *)
Active == {j \in Jobs : thr[j].pc \notin {"none", "exit"}}

(* The orchestrator front is idle: no poll is pending or running and the   *)
(* widgets toggled by toggle_ui_state are enabled.                         *)
Idle == poll = "none" /\ browse_button = "normal"

----------------------------------------------------------------------------
(* C1: for every run of the Job Runner, whatever the outcome of each       *)
(* stage, the runner puts exactly one 'finish' event and that event is the *)
(* last event it ever puts: at no time has a runner put two 'finish'       *)
(* events or anything after a 'finish', a runner that has put 'finish' has *)
(* nothing left to do but terminate, and a runner that is about to         *)
(* terminate has put 'finish'.                                             *)
C1_ExactlyOneFinishLast ==
    \A j \in Traced :
        /\ CountType(emitted[j], "finish") <= 1
        /\ CountType(emitted[j], "finish") = 1 =>
              /\ Last(emitted[j]).type = "finish"
              /\ Finished(j)
        /\ Finished(j) => CountType(emitted[j], "finish") = 1

(* A runner has put its Finish after failing to create the temporary file. *)
C1_Witness ==
    \E j \in Traced :
        /\ Finished(j)
        /\ calls[j] = << <<"tempfile", "raise">> >>
        /\ Last(emitted[j]).type = "finish"

(* C7: the stages are invoked in the order extraction, transcription,      *)
(* synthesis, each at most once per job, and once a stage has failed no    *)
(* later stage is invoked; no stage is invoked when the temporary file     *)
(* could not be created.                                                   *)
C7_StagesInOrderAbortOnFailure ==
    \A j \in Traced :
        LET sc == StageCalls(j)
        IN  /\ Len(sc) <= 3
            /\ \A i \in 1..Len(sc) : sc[i][1] = StageOrder[i]
            /\ \A i \in 1..Len(sc) : i < Len(sc) => sc[i][2] = "ok"
            /\ (calls[j] # <<>> /\ calls[j][1] = <<"tempfile", "raise">>)
                  => sc = <<>>

(* A runner has finished a job whose transcription failed after a          *)
(* successful extraction.                                                  *)
C7_Witness ==
    \E j \in Traced :
        /\ Finished(j)
        /\ Len(StageCalls(j)) = 2
        /\ StageCalls(j)[2][2] # "ok"

(* C8: the Finish event's isError flag is true iff some stage failed; a    *)
(* job in which a stage fails emits exactly one Error event, a job in      *)
(* which every stage succeeds emits none.                                  *)
C8_IsErrorIffStageFailed ==
    \A j \in Traced :
        /\ CountType(emitted[j], "error") <= 1
        /\ Finished(j) =>
              /\ Last(emitted[j]).value = StageFailed(j)
              /\ CountType(emitted[j], "error") =
                    (IF StageFailed(j) THEN 1 ELSE 0)
              /\ ~StageFailed(j) =>
                    /\ Len(StageCalls(j)) = 3
                    /\ \A i \in 1..3 : StageCalls(j)[i][2] = "ok"

(* A runner has finished a job whose synthesis collaborator raised.        *)
C8_Witness ==
    \E j \in Traced :
        /\ Finished(j)
        /\ Len(StageCalls(j)) = 3
        /\ StageCalls(j)[3] = <<"generate", "raise">>
        /\ Last(emitted[j]).value = TRUE

(* os.remove failed in the cleanup of job j and left the file in place.    *)
CleanupDenied(j) ==
    calls[j] # <<>> /\ Last(calls[j]) = <<"cleanup", "denied">>

(* C9 as stated: after the Finish event of any job, successful or failed   *)
(* at any stage, the intermediate audio artifact created for that job no   *)
(* longer exists.                                                          *)
C9_ArtifactGoneAfterFinish ==
    \A j \in Jobs : Finished(j) => j \notin artifact

(* C9 as amended: after the Finish event of any job the intermediate       *)
(* artifact no longer exists, unless os.remove failed during the cleanup;  *)
(* then the file is still there and the runner's last event before Finish  *)
(* is the 'Could not delete' warning Log.                                  *)
C9_ArtifactGoneUnlessDeleteFailed ==
    \A j \in Traced :
        Finished(j) =>
            /\ j \in artifact <=> CleanupDenied(j)
            /\ CleanupDenied(j) =>
                  emitted[j][Len(emitted[j]) - 1] =
                     Event("log", "Warning: Could not delete temporary file", j)

(* A runner has finished a failed job and its temporary file was deleted.  *)
C9_Witness ==
    \E j \in Traced :
        /\ Finished(j)
        /\ StageFailed(j)
        /\ Last(calls[j]) = <<"cleanup", "removed">>
        /\ j \notin artifact

(* C10: a failure to delete the intermediate artifact during cleanup never *)
(* turns the job into a failed one: it produces a Log event, never an      *)
(* Error event, and the job ends with Finish(isError=false) if all three   *)
(* stages succeeded.                                                       *)
C10_CleanupFailureNotEscalated ==
    \A j \in Traced :
        CleanupDenied(j) =>
            /\ thr[j].has_error = StageFailed(j)
            /\ CountType(emitted[j], "error") =
                  (IF StageFailed(j) THEN 1 ELSE 0)
            /\ thr[j].pc = "L344" => Last(emitted[j]).type = "log"
            /\ Finished(j) =>
                  /\ emitted[j][Len(emitted[j]) - 1].type = "log"
                  /\ Last(emitted[j]).value = StageFailed(j)

(* A runner has finished a job in which every stage succeeded and the      *)
(* deletion of the temporary file failed.                                  *)
C10_Witness ==
    \E j \in Traced :
        /\ Finished(j)
        /\ CleanupDenied(j)
        /\ ~StageFailed(j)
        /\ Last(emitted[j]) = [type |-> "finish", value |-> FALSE, job |-> j]

----------------------------------------------------------------------------
(* C2: in every reachable state, under any interleaving of submissions,    *)
(* poll steps and worker-thread steps, at most one Job Runner that has     *)
(* been started and has not yet emitted its Finish event exists.           *)
C2_AtMostOneActiveRunner == Cardinality(Active) <= 1

(* C3: a submit issued while a job is active is always rejected: it starts *)
(* no new worker thread, schedules no new drain loop and leaves the        *)
(* running job's thread the one the orchestrator watches.                  *)
C3_SubmitWhileActiveRejected ==
    [][Active # {} =>
          /\ nJobs' = nJobs
          /\ processing_thread' = processing_thread
          /\ (poll = "none" => poll' = "none")]_vars

(* C4: no event is dropped: whenever the orchestrator is back in Idle      *)
(* after a job, every event the job's runner put, its Finish included, has *)
(* been consumed, so the queue is empty.                                   *)
C4_IdleImpliesQueueEmpty ==
    (Idle /\ Active = {}) => processing_queue = <<>>

(* C5: every event the consumer dispatches while job N is the current job  *)
(* was emitted by job N's runner: no event of an earlier job is observed   *)
(* during a later job.                                                     *)
C5_DispatchedEventsBelongToCurrentJob ==
    [][Len(processing_queue') < Len(processing_queue) =>
          Head(processing_queue).job = processing_thread]_vars

----------------------------------------------------------------------------
(* The worker thread the orchestrator watches has performed its last       *)
(* action: it was started and is no longer alive.                          *)
ThreadDone == processing_thread # 0 /\ ~is_alive(processing_thread)

(* A call of start_processing returns in this step.                        *)
SubmitReturned == lastSubmit' # lastSubmit \/ nJobs' # nJobs

(* The step starts a worker thread and schedules its drain loop.           *)
SubmitAccepted ==
    /\ lastSubmit' = "accepted"
    /\ nJobs' = nJobs + 1
    /\ processing_thread' = nJobs'
    /\ is_alive(processing_thread)'
    /\ poll' = "scheduled"

----------------------------------------------------------------------------
(* The values of the Progress events job j has put, in emission order.     *)
ProgressValues(j) ==
    LET ps == SelectSeq(emitted[j], LAMBDA e : e.type = "progress")
    IN  [i \in 1..Len(ps) |-> ps[i].value]

(* C11: within one job the Progress values the runner emits are all in     *)
(* 0..100 and never decrease along the emission order, whatever the        *)
(* outcomes of the stages and of the cleanup.                              *)
C11_ProgressNonDecreasing ==
    \A j \in Traced :
        LET ps == ProgressValues(j)
        IN  /\ \A i \in 1..Len(ps) : ps[i] \in 0..100
            /\ \A i \in 1..Len(ps) : \A k \in i..Len(ps) : ps[i] <= ps[k]

(* A job that ran to the end and emitted the whole progress ladder.        *)
C11_Witness ==
    \E j \in Traced : Finished(j) /\ ProgressValues(j) = <<5, 25, 75, 100>>

(* A job aborted by the transcription stage stops the ladder at 25.        *)
C11_WitnessAborted ==
    \E j \in Traced :
        Finished(j) /\ thr[j].has_error /\ ProgressValues(j) = <<5, 25>>

----------------------------------------------------------------------------
(* Job j has put Progress(100).                                            *)
Emitted100(j) ==
    \E i \in 1..Len(emitted[j]) :
        emitted[j][i].type = "progress" /\ emitted[j][i].value = 100

(* C12: a job that has put its Finish has put Progress(100) exactly when   *)
(* that Finish carries is_error = false, the Progress(100) standing before *)
(* the Finish; and a job that has put Progress(100) is not in error, so it *)
(* cannot end with Finish(is_error = true).                                *)
C12_Progress100IffSuccess ==
    \A j \in Traced :
        /\ Emitted100(j) => ~thr[j].has_error
        /\ Finished(j) =>
              /\ Emitted100(j) <=> (Last(emitted[j]).value = FALSE)
              /\ \A i \in 1..Len(emitted[j]) :
                    (emitted[j][i].type = "progress"
                        /\ emitted[j][i].value = 100) => i < Len(emitted[j])

(* A successful job: Progress(100) and then Finish(false).                 *)
C12_Witness ==
    \E j \in Traced :
        /\ Finished(j)
        /\ Emitted100(j)
        /\ Last(emitted[j]) = Event("finish", FALSE, j)

(* A failed job: Finish(true) and no Progress(100).                        *)
C12_WitnessFailed ==
    \E j \in Traced :
        /\ Finished(j)
        /\ ~Emitted100(j)
        /\ Last(emitted[j]) = Event("finish", TRUE, j)

----------------------------------------------------------------------------
(* C13: check_queue dispatches the events of a job in exactly the order    *)
(* the job's thread put them, none twice: whenever an event of job j       *)
(* leaves the queue, it is the event that follows the last one dispatched  *)
(* for j in the thread's emission order.                                   *)
C13_DispatchedInEmissionOrder ==
    [][\A j \in Traced : \A i \in 1..Len(processing_queue) :
          LET e == processing_queue[i]
          IN  (/\ e.job = j
               /\ \A k \in 1..Len(processing_queue') :
                     processing_queue'[k] # e)
              => e.seq = dispatched[j] + 1]_vars

(* The whole stream of a successful job, Finish included, has been         *)
(* dispatched while its thread is returning.                               *)
C13_Witness ==
    \E j \in Traced :
        /\ Finished(j)
        /\ ~thr[j].has_error
        /\ dispatched[j] = Len(emitted[j])
        /\ processing_queue = <<>>

----------------------------------------------------------------------------
(* The extraction stage of job j ended with outcome o.                     *)
ExtractEnded(j, o) ==
    \E i \in 1..Len(calls[j]) : calls[j][i] = <<"extract", o>>

(* The texts of the Error events job j has put.                            *)
ErrorTexts(j) ==
    {emitted[j][i].value :
        i \in {k \in 1..Len(emitted[j]) : emitted[j][k].type = "error"}}

(* C14: when the source video has no audio track, the Error event of the   *)
(* job differs from the Error event put when extract_audio fails for any   *)
(* other reason, and neither the transcription nor the subtitle            *)
(* generation collaborator is called.                                      *)
C14_NoAudioErrorDistinguishable ==
    \A j \in Traced :
        ExtractEnded(j, "no_audio") =>
            /\ ErrorTexts(j) \cap {ExtractErrorText("failed")} = {}
            /\ \A i \in 1..Len(calls[j]) :
                  calls[j][i][1] \notin {"transcribe", "generate"}

(* The part of C14 about the later stages: after a video without an audio  *)
(* track the job puts one Error and calls no further collaborator.         *)
C14_NoAudioStopsPipeline ==
    \A j \in Traced :
        ExtractEnded(j, "no_audio") =>
            /\ Cardinality(ErrorTexts(j)) = 1
            /\ thr[j].has_error
            /\ \A i \in 1..Len(calls[j]) :
                  calls[j][i][1] \notin {"transcribe", "generate"}

----------------------------------------------------------------------------
(* The first events process_video_thread puts, lines 254-258.              *)
StreamHead(j) ==
    <<Event("log", "Thread started", j),
      Event("status", "Extracting audio...", j),
      Event("progress", 5, j)>>

(* C15 as stated: the event stream of every job begins with a              *)
(* Status("Starting...") followed by Progress(0), put by the runner before *)
(* the Log with the temporary file path.                                   *)
C15_StreamBeginsStartingProgress0 ==
    \A j \in Traced :
        LET es == emitted[j]
        IN  /\ Len(es) >= 1 => es[1] = Event("status", "Starting...", j)
            /\ Len(es) >= 2 => es[2] = Event("progress", 0, j)
            /\ \A i \in 1..Len(es) :
                  es[i] = Event("log", "Temporary WAV path", j) => i > 2

(* C15, amended: "Starting..." and progress 0 are written to the status    *)
(* label and the progress bar by start_processing when it accepts the      *)
(* submit, without any event being put; the event stream of the runner     *)
(* begins with Log("Thread started"), Status("Extracting audio...") and    *)
(* Progress(5), all put before the Log with the temporary file path.       *)
C15_StartShownThenStreamHead ==
    /\ [](\A j \in Traced :
            LET es == emitted[j]
            IN  /\ \A i \in 1..Len(es) : i <= 3 => es[i] = StreamHead(j)[i]
                /\ \A i \in 1..Len(es) :
                      es[i] = Event("log", "Temporary WAV path", j) => i = 4)
    /\ [][nJobs' = nJobs + 1 =>
             /\ status_label' = "Starting..."
             /\ progress_bar' = 0
             /\ processing_queue' = processing_queue
             /\ emitted' = emitted]_vars

(* A runner that has put the Log with the temporary file path.             *)
C15_Witness ==
    \E j \in Traced :
        /\ Len(emitted[j]) >= 4
        /\ emitted[j][4] = Event("log", "Temporary WAV path", j)

----------------------------------------------------------------------------
(* A call of start_processing returns in this step after rejecting the     *)
(* submit for its path: none given, or no such file.                       *)
SubmitRejectedForPath ==
    SubmitReturned /\ lastSubmit' \in {"no_path", "not_found"}

(* C16: a submit rejected because no source path was given or the path     *)
(* does not exist starts no thread, schedules no poll, puts no event and   *)
(* leaves the front idle with the Generate button enabled, ready for a     *)
(* later submit.                                                           *)
C16_RejectedSubmitStartsNothing ==
    [][SubmitRejectedForPath =>
          /\ UNCHANGED <<thr, nJobs, processing_thread, poll,
                         processing_queue, emitted, generate_button,
                         browse_button, status_label, progress_bar>>
          /\ Idle'
          /\ generate_button' = "normal"]_vars

(* A submit has just been rejected for its path before any job ran: no     *)
(* thread, no poll, an empty queue, the button enabled.                    *)
C16_Witness ==
    /\ lastSubmit \in {"no_path", "not_found"}
    /\ nJobs = 0
    /\ \A j \in Jobs : thr[j].pc = "none"
    /\ Idle
    /\ processing_queue = <<>>
    /\ generate_button = "normal"

(* A submit has been rejected for its path after a job was run.            *)
C16_WitnessAfterJob ==
    /\ lastSubmit \in {"no_path", "not_found"}
    /\ nJobs >= 1
    /\ Idle
    /\ generate_button = "normal"

----------------------------------------------------------------------------
(* The output path computation of process_video_thread, lines 294-297, as  *)
(* a function of its own: os.path is posixpath.  A path is a sequence of   *)
(* path symbols, each the separator "/", the extension separator "." or a  *)
(* run of other characters, which os.path never looks into.                *)

\* Longest source path examined, in path symbols.
MaxPathLen == 5

PathSymbols == {"/", ".", "talk", "mp4"}

(* The values of video_path: start_processing rejects the empty string.    *)
VideoPaths == UNION {[1..n -> PathSymbols] : n \in 1..MaxPathLen}

(* str.rfind(c), counted from 1: the last position of c in p, 0 when c     *)
(* does not occur.                                                         *)
rfind(p, c) ==
    LET at == {i \in 1..Len(p) : p[i] = c}
    IN  IF at = {} THEN 0 ELSE CHOOSE i \in at : \A k \in at : k <= i

(* posixpath.basename: what follows the last separator.                    *)
basename(p) == SubSeq(p, rfind(p, "/") + 1, Len(p))

(* posixpath.dirname: what precedes the base name, without its trailing    *)
(* separators unless it consists of separators only.                       *)
dirname(p) ==
    LET head == SubSeq(p, 1, rfind(p, "/"))
        solid == {k \in 1..Len(head) : head[k] # "/"}
    IN  IF solid = {} THEN head
        ELSE SubSeq(head, 1, CHOOSE k \in solid : \A m \in solid : m <= k)

(* os.path.splitext cutting at the first dot of the file name, so that     *)
(* every extension is removed.                                             *)
splitext_at_first_dot(p) ==
    LET sepIndex == rfind(p, "/")
        dots == {k \in sepIndex + 1..Len(p) : p[k] = "."}
    IN  IF dots = {} THEN <<p, <<>>>>
        ELSE LET d == CHOOSE k \in dots : \A m \in dots : k <= m
             IN  <<SubSeq(p, 1, d - 1), SubSeq(p, d, Len(p))>>

(* posixpath.splitext (genericpath._splitext): cut at the last dot, when   *)
(* it stands after the last separator and some character other than a dot *)
(* stands between the two; else the extension is empty.                    *)
splitext(p) ==
    LET sepIndex == rfind(p, "/")
        dotIndex == rfind(p, ".")
    IN  IF /\ dotIndex > sepIndex
           /\ \E k \in sepIndex + 1..dotIndex - 1 : p[k] # "."
        THEN <<SubSeq(p, 1, dotIndex - 1), SubSeq(p, dotIndex, Len(p))>>
        ELSE <<p, <<>>>>

(* posixpath.join(a, b).                                                   *)
join(a, b) ==
    IF b # <<>> /\ b[1] = "/" THEN b
    ELSE IF a = <<>> \/ a[Len(a)] = "/" THEN a \o b
    ELSE a \o <<"/">> \o b

(* Lines 295-297.                                                          *)
OutputSubtitlePath(video_path, output_format) ==
    LET video_dir == dirname(video_path)
        video_filename_base == splitext(basename(video_path))[1]
    IN  join(video_dir, video_filename_base \o <<".", output_format>>)

(* The thread arguments under examination: any source path, any format.    *)
InitPath ==
    /\ InitApp
    /\ \E p \in VideoPaths, f \in Formats :
          path_job = [video_path |-> p, output_format |-> f,
                      output_subtitle_path |-> <<>>]

ComputeOutputPath ==
    /\ path_job.video_path # <<>>
    /\ path_job.output_subtitle_path = <<>>
    /\ path_job' = [path_job EXCEPT !.output_subtitle_path =
                      OutputSubtitlePath(path_job.video_path,
                                         path_job.output_format)]
    /\ UNCHANGED <<generate_button, browse_button, status_label,
                   progress_bar, processing_queue, processing_thread, poll,
                   thr, artifact, nJobs, lastSubmit, emitted, calls,
                   dispatched>>

NextPath == ComputeOutputPath

SpecPath == InitPath /\ [][NextPath]_vars

(* C17: the subtitle path depends on the source path and the format only   *)
(* and is the sibling of the source named after it: it lies in the         *)
(* source's directory, and its name is the source's base name without its  *)
(* last extension (if it has one), followed by "." and the format; so      *)
(* talk.mp4 with format srt gives talk.srt.                                *)
C17_OutputPathIsSiblingWithFormat ==
    path_job.output_subtitle_path # <<>> =>
        LET src == path_job.video_path
            fmt == path_job.output_format
            out == path_job.output_subtitle_path
            b == basename(src)
            ob == basename(out)
            stem == SubSeq(ob, 1, Len(ob) - 2)
            ext == SubSeq(b, Len(stem) + 1, Len(b))
        IN  /\ out = OutputSubtitlePath(src, fmt)
            /\ dirname(out) = dirname(src)
            /\ Len(ob) >= 2
            /\ SubSeq(ob, Len(ob) - 1, Len(ob)) = <<".", fmt>>
            /\ Len(stem) <= Len(b)
            /\ stem = SubSeq(b, 1, Len(stem))
            /\ ext # <<>> =>
                  /\ ext[1] = "."
                  /\ \A k \in 2..Len(ext) : ext[k] # "."
                  /\ \E k \in 1..Len(stem) : stem[k] # "."
            /\ ext = <<>> =>
                  \A k \in 1..Len(b) :
                      b[k] = "." => \A m \in 1..k : b[m] = "."
            /\ (src = <<"talk", ".", "mp4">> /\ fmt = "srt")
                  => out = <<"talk", ".", "srt">>

(* talk.mp4 with format srt has been given its subtitle path talk.srt.     *)
C17_Witness ==
    /\ path_job.video_path = <<"talk", ".", "mp4">>
    /\ path_job.output_format = "srt"
    /\ path_job.output_subtitle_path = <<"talk", ".", "srt">>

(* A source with two extensions in a directory: only the last extension   *)
(* is replaced.                                                            *)
C17_WitnessTwoExtensions ==
    /\ path_job.video_path = <<"/", "talk", ".", ".", "mp4">>
    /\ path_job.output_format = "ass"
    /\ path_job.output_subtitle_path = <<"/", "talk", ".", ".", "ass">>

----------------------------------------------------------------------------
(* The cleanup steps of job j: the calls recorded for lines 331-341.       *)
CleanupCalls(j) == SelectSeq(calls[j], LAMBDA c : c[1] = "cleanup")

(* The Log events of job j that describe a cleanup outcome.                *)
CleanupLogs(j) ==
    SelectSeq(emitted[j],
              LAMBDA e : /\ e.type = "log"
                         /\ \E o \in CleanupOutcomes : e.value = CleanupLog(o))

(* The temporary file of job j was created: temp_wav_path was assigned.    *)
TempFileCreated(j) ==
    \E i \in 1..Len(calls[j]) : calls[j][i] = <<"tempfile", "ok">>

(* Job j has run its cleanup step once, after every other call, and has    *)
(* put the one Log describing its outcome as its latest event but for the  *)
(* Finish.                                                                 *)
CleanedUpOnce(j) ==
    /\ Len(CleanupCalls(j)) = 1
    /\ Last(calls[j])[1] = "cleanup"
    /\ Last(calls[j])[2] \in CleanupOutcomes
    /\ Len(CleanupLogs(j)) = 1
    /\ emitted[j][Len(emitted[j]) - 1] =
          Event("log", CleanupLog(Last(calls[j])[2]), j)

(* C18 as stated: in every job, whichever step aborted it, the failure to  *)
(* create the temporary file included, the cleanup step runs exactly once  *)
(* after the last stage action and before Finish and puts exactly one Log  *)
(* describing its outcome.                                                 *)
C18_CleanupOnceInEveryJob ==
    \A j \in Traced : Finished(j) => CleanedUpOnce(j)

(* C18, amended: the cleanup step runs, exactly once, after the last stage *)
(* action and before Finish, and puts exactly one Log describing its       *)
(* outcome, in every job whose temporary file was created; when the        *)
(* creation of the temporary file failed there is no cleanup step and no   *)
(* cleanup Log, and Finish follows the Error directly.                     *)
C18_CleanupOnceIfTempFileCreated ==
    \A j \in Traced :
        /\ Len(CleanupCalls(j)) <= 1
        /\ Len(CleanupLogs(j)) = Len(CleanupCalls(j))
        /\ Len(CleanupCalls(j)) = 1 =>
              /\ TempFileCreated(j)
              /\ Last(calls[j])[1] = "cleanup"
              /\ CountType(emitted[j], "finish") = 1 <=> Finished(j)
        /\ Finished(j) =>
              IF TempFileCreated(j)
              THEN CleanedUpOnce(j)
              ELSE /\ CleanupCalls(j) = <<>>
                   /\ emitted[j][Len(emitted[j]) - 1].type = "error"

(* A job aborted by the transcription stage has cleaned up and finished.   *)
C18_Witness ==
    \E j \in Traced :
        /\ Finished(j)
        /\ TempFileCreated(j)
        /\ \E i \in 1..Len(calls[j]) : calls[j][i] = <<"transcribe", "error">>
        /\ CleanedUpOnce(j)

(* A job whose temporary file could not be created has finished without a  *)
(* cleanup step.                                                           *)
C18_WitnessNoTempFile ==
    \E j \in Traced :
        /\ Finished(j)
        /\ ~TempFileCreated(j)
        /\ CleanupCalls(j) = <<>>

----------------------------------------------------------------------------
(* Event e of job j is a Log put by the cleanup step.                      *)
IsCleanupLog(e) ==
    e.type = "log" /\ \E o \in CleanupOutcomes : e.value = CleanupLog(o)

(* C19: in a failed job the Error event is put before the cleanup step and *)
(* before Finish(is_error = true); once the Error is put the runner puts   *)
(* no Status and no Progress any more, only the cleanup Log and the        *)
(* Finish.                                                                 *)
C19_ErrorThenOnlyCleanupAndFinish ==
    \A j \in Traced :
        LET es == emitted[j]
        IN  /\ CountType(es, "error") <= 1
            /\ \A i \in 1..Len(es) :
                  es[i].type = "error" =>
                      /\ \A k \in 1..i : ~IsCleanupLog(es[k])
                      /\ \A k \in i + 1..Len(es) :
                            \/ IsCleanupLog(es[k])
                            \/ es[k] = Event("finish", TRUE, j) /\ k = Len(es)
            /\ (Finished(j) /\ Last(es).value = TRUE) =>
                  \E i \in 1..Len(es) - 1 : es[i].type = "error"

(* A job failed by the subtitle generation has put Error, the cleanup Log  *)
(* and Finish(true), in this order.                                        *)
C19_Witness ==
    \E j \in Traced :
        LET n == Len(emitted[j])
        IN  /\ Finished(j)
            /\ n >= 3
            /\ emitted[j][n - 2].type = "error"
            /\ IsCleanupLog(emitted[j][n - 1])
            /\ emitted[j][n] = Event("finish", TRUE, j)
            /\ \E i \in 1..Len(calls[j]) : calls[j][i][1] = "generate"

----------------------------------------------------------------------------
(* The enabled/disabled state of the widgets changes in this step.         *)
UiStateChanges ==
    generate_button' # generate_button \/ browse_button' # browse_button

(* The step is a step of a worker thread.                                  *)
WorkerStep == thr' # thr /\ nJobs' = nJobs

(* check_queue dispatches a Finish event in this step.                     *)
FinishObserved ==
    /\ Len(processing_queue') < Len(processing_queue)
    /\ \E i \in 1..Len(processing_queue) :
          /\ processing_queue[i].type = "finish"
          /\ \A k \in 1..Len(processing_queue') :
                processing_queue'[k] # processing_queue[i]

(* check_queue finds the thread dead in this step and stops polling.       *)
DeathDetected ==
    /\ poll = "alive_check"
    /\ poll' = "none"
    /\ ~is_alive(processing_thread)
    /\ thr' = thr

(* The enabled/disabled state becomes Busy at an accepted submit, or       *)
(* becomes Idle where check_queue dispatches Finish or finds the thread    *)
(* dead.                                                                   *)
BusyTransition ==
    \/ /\ SubmitAccepted
       /\ generate_button' = "disabled"
       /\ browse_button' = "disabled"
    \/ /\ FinishObserved \/ DeathDetected
       /\ generate_button' = "normal"
       /\ browse_button' = "normal"

(* start_processing returns in this step after a failed FFmpeg check,      *)
(* having disabled the Generate button alone (line 179).                   *)
FfmpegLockout ==
    /\ lastSubmit' = "no_ffmpeg"
    /\ generate_button = "normal"
    /\ generate_button' = "disabled"
    /\ UNCHANGED <<browse_button, thr, nJobs, poll, processing_queue,
                   processing_thread>>

(* C20 as stated: the enabled/disabled UI state changes only at an         *)
(* accepted submit (to Busy) and where the drain loop observes Finish or   *)
(* detects the death of the runner (to Idle); no step of a worker thread   *)
(* changes it.                                                             *)
C20_BusyChangesOnlyAtSubmitAndTerminal ==
    [][/\ UiStateChanges => BusyTransition
       /\ WorkerStep => ~UiStateChanges]_vars

(* C20, amended: besides these two places, start_processing disables the   *)
(* Generate button, and only it, when it rejects a submit because the      *)
(* FFmpeg check failed; no step of a worker thread changes the UI state.   *)
C20_BusyChangesOnlyInMainThread ==
    [][/\ UiStateChanges => BusyTransition \/ FfmpegLockout
       /\ WorkerStep => ~UiStateChanges]_vars

(* The front went Busy for a job and is Idle again after its Finish was    *)
(* dispatched.                                                             *)
C20_Witness ==
    /\ nJobs >= 1
    /\ Idle
    /\ generate_button = "normal"
    /\ status_label \in {"Processing finished successfully.",
                         "Processing finished with errors. Check logs."}

----------------------------------------------------------------------------
(* transcribe_audio_with_whisper returned to job j with no error message   *)
(* and an empty or missing result.                                         *)
TranscribedNothing(j) ==
    \E i \in 1..Len(calls[j]) : calls[j][i] = <<"transcribe", "empty">>

(* C21: when the transcription collaborator returns no error message but   *)
(* an empty or missing result, the runner treats it as a failure of stage  *)
(* 2: it puts one Error, never puts Progress(75), never calls the subtitle *)
(* generation, and ends with Finish(is_error = true).                      *)
C21_EmptyTranscriptIsFailure ==
    \A j \in Traced :
        TranscribedNothing(j) =>
            /\ CountType(emitted[j], "error") = 1
            /\ thr[j].has_error
            /\ \A i \in 1..Len(ProgressValues(j)) : ProgressValues(j)[i] < 75
            /\ \A i \in 1..Len(calls[j]) : calls[j][i][1] # "generate"
            /\ Last(StageCalls(j)) = <<"transcribe", "empty">>
            /\ Finished(j) => Last(emitted[j]) = Event("finish", TRUE, j)

(* A job whose transcription came back empty has ended with Finish(true).  *)
C21_Witness ==
    \E j \in Traced :
        /\ Finished(j)
        /\ TranscribedNothing(j)
        /\ Last(emitted[j]) = Event("finish", TRUE, j)

----------------------------------------------------------------------------
(* check_queue takes its defensive branch in this step (lines 244-247): it *)
(* finds the thread dead with the button still disabled, re-enables the    *)
(* widgets and stops polling.                                              *)
DefensiveRecovery ==
    /\ DeathDetected
    /\ generate_button = "disabled"
    /\ generate_button' = "normal"
    /\ status_label' = "Process ended. Check logs."

(* The runner the orchestrator watches has put its Finish and the event is *)
(* still waiting in the queue.                                             *)
FinishWaiting ==
    \E i \in 1..Len(processing_queue) :
        /\ processing_queue[i].type = "finish"
        /\ processing_queue[i].job = processing_thread

(* C22: check_queue takes the defensive branch only for a job whose runner *)
(* died without putting Finish; when the runner has put Finish, the        *)
(* orchestrator returns to Idle by dispatching that Finish, however the    *)
(* worker's last puts interleave with the queue-empty and is_alive tests   *)
(* of the poll.                                                            *)
C22_DefensiveOnlyWithoutFinish ==
    [][DefensiveRecovery => ~FinishWaiting]_vars

====
